---- MODULE Spec2Model ----
(***************************************************************************)
(* BackendForge API (src/main.py, src/schemas.py): a registry of twelve    *)
(* record kinds served by four generic handlers, the three project         *)
(* handlers, and the document serializer.                                  *)
(*                                                                         *)
(* Values are a tagged union, so that str(ObjectId) is a conversion and    *)
(* not the identity:                                                       *)
(*   [t |-> "oid",  hex |-> h]      a bson ObjectId                        *)
(*   [t |-> "str",  v |-> s]        a str                                  *)
(*   [t |-> "int",  n |-> i]        an int                                 *)
(*   [t |-> "bool", b |-> x]        a bool                                 *)
(*   [t |-> "none"]                 None                                   *)
(*   [t |-> "list", items |-> q]    a list                                 *)
(*   [t |-> "dict", map |-> f]      a dict, f a function on its keys       *)
(***************************************************************************)
EXTENDS Integers, Sequences, FiniteSets, TLC

VARIABLES connected, kind, store, nextId, pc, cur, resp, writes, arg, ret, ret2

vars == <<connected, kind, store, nextId, pc, cur, resp, writes, arg, ret, ret2>>

crudVars == <<connected, kind, store, nextId, pc, cur, resp, writes>>

serVars == <<arg, ret, ret2>>

----------------------------------------------------------------------------
(* Values *)

Oid(h) == [t |-> "oid", hex |-> h]

Str(s) == [t |-> "str", v |-> s]

Int_(i) == [t |-> "int", n |-> i]

Bool(x) == [t |-> "bool", b |-> x]

None == [t |-> "none"]

List(q) == [t |-> "list", items |-> q]

Dict(f) == [t |-> "dict", map |-> f]

EmptyMap == [k \in {} |-> None]

Unset == [t |-> "unset"]

(* str(ObjectId): the 24-digit hex text of the identifier *)
str_oid(v) == Str(v.hex)

----------------------------------------------------------------------------
(* Document Serializer, src/main.py:50-63 *)

RECURSIVE serialize_doc(_)

(* the list comprehension of line 58: dict elements recurse, ObjectId      *)
(* elements become strings, every other element is passed through          *)
serialize_item(i) ==
  IF i.t = "dict" THEN serialize_doc(i)
  ELSE IF i.t = "oid" THEN str_oid(i)
  ELSE i

(* the converter that wraps an identifier instead of replacing it *)
serialize_value_wrap(v) ==
  IF v.t = "oid" THEN Dict([k \in {"$oid"} |-> v])
  ELSE IF v.t = "list" THEN List([n \in 1..Len(v.items) |-> serialize_item(v.items[n])])
  ELSE IF v.t = "dict" THEN serialize_doc(v)
  ELSE v

serialize_value(v) ==
  IF v.t = "oid" THEN str_oid(v)
  ELSE IF v.t = "list" THEN List([n \in 1..Len(v.items) |-> serialize_item(v.items[n])])
  ELSE IF v.t = "dict" THEN serialize_doc(v)
  ELSE v

serialize_doc(doc) ==
  IF doc.t = "none" \/ (doc.t = "dict" /\ DOMAIN doc.map = {}) THEN doc
  ELSE Dict([k \in DOMAIN doc.map |-> serialize_value(doc.map[k])])

----------------------------------------------------------------------------
(* Schemas, src/schemas.py *)

Req(ty) == [ty |-> ty, req |-> TRUE, dflt |-> None, lits |-> {}]

Opt(ty, d) == [ty |-> ty, req |-> FALSE, dflt |-> d, lits |-> {}]

ReqLit(S) == [ty |-> "lit", req |-> TRUE, dflt |-> None, lits |-> S]

OptLit(S, d) == [ty |-> "lit", req |-> FALSE, dflt |-> Str(d), lits |-> S]

OnAction == {"NO ACTION", "CASCADE", "SET NULL", "RESTRICT"}

Project ==
  [name |-> Req("str"),
   db_type |-> OptLit({"PostgreSQL", "MySQL", "MongoDB"}, "MongoDB"),
   region |-> Opt("str", Str("us-east-1")),
   status |-> OptLit({"active", "provisioning", "error"}, "active")]

ActivityLog ==
  [project_id |-> Req("str"),
   action |-> Req("str"),
   details |-> Opt("optstr", None),
   actor |-> Opt("optstr", None),
   level |-> OptLit({"info", "warning", "error"}, "info")]

ColumnDef ==
  [name |-> Req("str"),
   data_type |-> ReqLit({"String", "Integer", "Boolean", "Date", "JSON", "Enum"}),
   primary_key |-> Opt("bool", Bool(FALSE)),
   required |-> Opt("bool", Bool(FALSE)),
   default_value |-> Opt("any", None),
   relation |-> Opt("optstr", None),
   description |-> Opt("optstr", None)]

TableDef ==
  [project_id |-> Req("str"),
   name |-> Req("str"),
   description |-> Opt("optstr", None),
   columns |-> Opt("listcol", List(<<>>))]

Relationship ==
  [project_id |-> Req("str"),
   name |-> Req("str"),
   rel_type |-> ReqLit({"One-to-One", "One-to-Many", "Many-to-Many"}),
   source_table_id |-> Req("str"),
   target_table_id |-> Req("str"),
   on_delete |-> OptLit(OnAction, "NO ACTION"),
   on_update |-> OptLit(OnAction, "NO ACTION")]

ApiEndpoint ==
  [project_id |-> Req("str"),
   method |-> ReqLit({"GET", "POST", "PUT", "PATCH", "DELETE"}),
   url |-> Req("str"),
   auth_required |-> Opt("bool", Bool(TRUE)),
   description |-> Opt("optstr", None)]

GraphQLSchema ==
  [project_id |-> Req("str"),
   schema |-> Req("dict")]

AuthSettings ==
  [project_id |-> Req("str"),
   jwt_enabled |-> Opt("bool", Bool(TRUE)),
   oauth_google |-> Opt("bool", Bool(FALSE)),
   oauth_github |-> Opt("bool", Bool(FALSE)),
   oauth_microsoft |-> Opt("bool", Bool(FALSE))]

Role ==
  [project_id |-> Req("str"),
   name |-> Req("str"),
   description |-> Opt("optstr", None),
   permissions |-> Opt("liststr", List(<<>>))]

Deployment ==
  [project_id |-> Req("str"),
   environment |-> ReqLit({"Dev", "QA", "Production"}),
   status |-> OptLit({"Success", "Pending", "Failed"}, "Pending"),
   logs |-> Opt("optstr", None)]

ApiKey ==
  [project_id |-> Req("str"),
   name |-> Req("str"),
   key |-> Req("str")]

TeamMember ==
  [project_id |-> Req("str"),
   name |-> Req("str"),
   role |-> Req("str"),
   status |-> OptLit({"invited", "active", "removed"}, "invited")]

AnalyticsPoint ==
  [project_id |-> Req("str"),
   metric |-> ReqLit({"api_usage", "response_time", "error_rate"}),
   timestamp |-> Req("int"),
   value |-> Req("float")]

(* class name -> class; the classes main.py imports, and ColumnDef *)
Models ==
  [Project |-> Project, TableDef |-> TableDef, Relationship |-> Relationship,
   ApiEndpoint |-> ApiEndpoint, GraphQLSchema |-> GraphQLSchema,
   AuthSettings |-> AuthSettings, Role |-> Role, Deployment |-> Deployment,
   ApiKey |-> ApiKey, TeamMember |-> TeamMember, ActivityLog |-> ActivityLog,
   AnalyticsPoint |-> AnalyticsPoint, ColumnDef |-> ColumnDef]

(* model.model_fields *)
model_fields(model) == DOMAIN Models[model]

----------------------------------------------------------------------------
\* pydantic: constructing a model from a payload, and model_dump, on the
\* value tags that the requests of this model supply

RECURSIVE Validates(_, _)

FieldOK(spec, v) ==
  CASE spec.ty = "str" -> v.t = "str"
    [] spec.ty = "optstr" -> v.t \in {"str", "none"}
    [] spec.ty = "bool" -> v.t = "bool"
    [] spec.ty = "int" -> v.t = "int"
    [] spec.ty = "float" -> v.t \in {"int", "float"}
    [] spec.ty = "lit" -> v.t = "str" /\ v.v \in spec.lits
    [] spec.ty = "dict" -> v.t = "dict"
    [] spec.ty = "liststr" ->
         v.t = "list" /\ \A n \in 1..Len(v.items) : v.items[n].t = "str"
    [] spec.ty = "listcol" ->
         v.t = "list" /\ \A n \in 1..Len(v.items) :
            v.items[n].t = "dict" /\ Validates("ColumnDef", v.items[n].map)
    [] OTHER -> TRUE

\* the constructor succeeds: every required field is supplied and every
\* supplied declared field has its type; undeclared keys are ignored
Validates(model, payload) ==
  \A f \in model_fields(model) :
     IF f \in DOMAIN payload THEN FieldOK(Models[model][f], payload[f])
     ELSE ~Models[model][f].req

RECURSIVE model_dump(_, _)

Coerce(spec, v) ==
  CASE spec.ty = "float" /\ v.t = "int" -> [t |-> "float", n |-> v.n]
    [] spec.ty = "listcol" ->
         List([n \in 1..Len(v.items) |-> Dict(model_dump("ColumnDef", v.items[n].map))])
    [] OTHER -> v

(* the declared fields, supplied value or default *)
model_dump(model, payload) ==
  [f \in model_fields(model) |->
     IF f \in DOMAIN payload THEN Coerce(Models[model][f], payload[f])
     ELSE Models[model][f].dflt]

----------------------------------------------------------------------------
(* Generic CRUD registry, src/main.py:66-83 *)

ModelMap ==
  [r \in {"projects", "tables", "relationships", "api-endpoints",
          "graphql-schemas", "auth-settings", "roles", "deployments",
          "api-keys", "team-members", "activity", "analytics"} |->
     CASE r = "projects" -> "Project"
       [] r = "tables" -> "TableDef"
       [] r = "relationships" -> "Relationship"
       [] r = "api-endpoints" -> "ApiEndpoint"
       [] r = "graphql-schemas" -> "GraphQLSchema"
       [] r = "auth-settings" -> "AuthSettings"
       [] r = "roles" -> "Role"
       [] r = "deployments" -> "Deployment"
       [] r = "api-keys" -> "ApiKey"
       [] r = "team-members" -> "TeamMember"
       [] r = "activity" -> "ActivityLog"
       [] r = "analytics" -> "AnalyticsPoint"]

\* the lowercase class name
collection_name(model) ==
  CASE model = "Project" -> "project"
    [] model = "TableDef" -> "tabledef"
    [] model = "Relationship" -> "relationship"
    [] model = "ApiEndpoint" -> "apiendpoint"
    [] model = "GraphQLSchema" -> "graphqlschema"
    [] model = "AuthSettings" -> "authsettings"
    [] model = "Role" -> "role"
    [] model = "Deployment" -> "deployment"
    [] model = "ApiKey" -> "apikey"
    [] model = "TeamMember" -> "teammember"
    [] model = "ActivityLog" -> "activitylog"
    [] model = "AnalyticsPoint" -> "analyticspoint"

Collections ==
  {"project", "tabledef", "relationship", "apiendpoint", "graphqlschema",
   "authsettings", "role", "deployment", "apikey", "teammember",
   "activitylog", "analyticspoint"}

----------------------------------------------------------------------------
(* Bounds and request inputs *)

(* requests that change the store, per behaviour *)
MaxWrites == 2

(* the identifiers the store hands out, in order (24 hex digits each,      *)
(* abbreviated)                                                            *)
HexOf ==
  <<"a01", "a02", "a03", "a04", "a05", "a06", "a07", "a08", "a09", "a10",
    "a11", "a12", "a13", "a14", "a15", "a16", "a17", "a18", "a19", "a20">>

(* a well-formed identifier that the store never hands out, and a path     *)
(* segment that is no identifier at all                                    *)
UnusedHex == "fff"

BadId == "bad-id"

UnknownKind == "unknown-kind"

Range(q) == {q[n] : n \in 1..Len(q)}

Merge(d, p) == [k \in DOMAIN d \cup DOMAIN p |-> IF k \in DOMAIN p THEN p[k] ELSE d[k]]

SampleOf(spec) ==
  CASE spec.ty = "lit" -> Str(CHOOSE x \in spec.lits : TRUE)
    [] spec.ty = "int" -> Int_(1)
    [] spec.ty = "float" -> [t |-> "float", n |-> 1]
    [] spec.ty = "dict" -> Dict(EmptyMap)
    [] OTHER -> Str("x")

(* the smallest payload a kind accepts, for project pid *)
ValidPayload(model, pid) ==
  [f \in {g \in model_fields(model) : Models[model][g].req} |->
     IF f = "project_id" THEN Str(pid) ELSE SampleOf(Models[model][f])]

ProjectPayloads ==
  {[name |-> Str("Shop"), db_type |-> Str("PostgreSQL")],
   [name |-> Str("Shop"), db_type |-> Str("Oracle")],
   EmptyMap}

UpdatePayloads ==
  {[project_id |-> Str("q")],
   [project_id |-> Int_(7), extra |-> Str("x")],
   ("_id" :> Str("x"))}

----------------------------------------------------------------------------
(* The document store: pymongo calls of main.py, and the database module   *)

EmptyStore == [c \in Collections |-> <<>>]

IdsIn(st, c) == {st[c][n]["_id"].hex : n \in 1..Len(st[c])}

Matches(d, filt) == \A k \in DOMAIN filt : k \in DOMAIN d /\ d[k] = filt[k]

find(st, c, filt) ==
  LET Test(d) == Matches(d, filt) IN SelectSeq(st[c], Test)

insert_one(st, c, doc, n) ==
  [st EXCEPT ![c] = Append(@, Merge(doc, ("_id" :> Oid(HexOf[n]))))]

MatchIndex(st, c, oid) == {n \in 1..Len(st[c]) : st[c][n]["_id"] = oid}

(* $set writes the payload's fields over the record's; the store refuses   *)
(* a $set that would change _id                                            *)
SetRefused(d, payload) == "_id" \in DOMAIN payload /\ payload["_id"] # d["_id"]

update_one(st, c, oid, payload) ==
  LET n == CHOOSE m \in MatchIndex(st, c, oid) : TRUE
  IN  [st EXCEPT ![c][n] = Merge(@, payload)]

delete_one(st, c, oid) ==
  LET Keep(d) == d["_id"] # oid IN [st EXCEPT ![c] = SelectSeq(@, Keep)]

(* database.create_document: the dumped model is inserted and the new      *)
(* identifier comes back as a string                                       *)
create_document(st, c, model, payload, n) == insert_one(st, c, model_dump(model, payload), n)

(* database.get_documents *)
get_documents(st, c, filt) == find(st, c, filt)

(* bson.ObjectId.is_valid *)
WellFormed(s) == s \in Range(HexOf) \cup {UnusedHex}

----------------------------------------------------------------------------
(* Requests and responses *)

Request(op, resource, id, payload, project_id) ==
  [op |-> op, resource |-> resource, id |-> id, payload |-> payload,
   project_id |-> project_id]

(* calls: the store calls the handler made *)
Response(status, body, calls) == [status |-> status, body |-> body, calls |-> calls]

NoRequest == Request("none", "", "", EmptyMap, None)

Pending == Response(0, None, 0)

HTTPException(status, detail, calls) == Response(status, Str(detail), calls)

(* an exception no handler catches: the framework answers 500 *)
Unhandled(calls) == Response(500, Str("Internal Server Error"), calls)

Serialized(docs) == List([n \in 1..Len(docs) |-> serialize_doc(Dict(docs[n]))])

----------------------------------------------------------------------------
(* Inputs a caller can name in the current state.  A request for the      *)
(* unregistered name is tried with one id, payload and filter per handler. *)

ProjectIds == IdsIn(store, collection_name("Project"))

Resources == {kind, UnknownKind}

IdInputs(resource) ==
  IF resource \notin DOMAIN ModelMap THEN {BadId}
  ELSE IdsIn(store, collection_name(ModelMap[resource])) \cup {UnusedHex, BadId}

PidInputs == {"p"} \cup ProjectIds

FilterInputs(resource) ==
  IF resource \notin DOMAIN ModelMap THEN {None}
  ELSE {None, Str("")} \cup {Str(x) : x \in PidInputs}

ItemPayloads(resource) ==
  IF resource \notin DOMAIN ModelMap THEN {EmptyMap}
  ELSE {ValidPayload(ModelMap[resource], pid) : pid \in PidInputs} \cup {EmptyMap}

UpdateInputs(resource) ==
  IF resource \notin DOMAIN ModelMap THEN {[project_id |-> Str("q")]} ELSE UpdatePayloads

----------------------------------------------------------------------------
(* Projects, src/main.py:120-142 *)

(* GET /projects.  `if db` truth-tests the handle: None is false; a        *)
(* pymongo Database is true where the class defines no truth value and     *)
(* raises NotImplementedError where it does (PyMongo 4)                    *)
list_projects ==
  /\ pc = 0
  /\ cur' = Request("list_projects", "projects", "", EmptyMap, None)
  /\ \/ /\ ~connected
        /\ resp' = Response(200, List(<<>>), 0)
     \/ /\ connected
        /\ \E raises \in BOOLEAN :
             resp' = IF raises THEN Unhandled(0)
                     ELSE Response(200,
                            Serialized(get_documents(store, collection_name("Project"), EmptyMap)), 1)
  /\ UNCHANGED <<connected, kind, store, nextId, pc, writes, serVars>>

SeedEnvironments_short == <<"Dev", "QA">>

SeedEnvironments == <<"Dev", "QA", "Production">>

NumDependents == 1 + Len(SeedEnvironments)

(* the n-th record seeded for project _id: lines 129-131 *)
Dependent(n, id) ==
  IF n = 1
  THEN [model |-> "AuthSettings", payload |-> [project_id |-> Str(id)]]
  ELSE [model |-> "Deployment",
        payload |-> [project_id |-> Str(id), environment |-> Str(SeedEnvironments[n - 1])]]

(* POST /projects, up to and including the insert of the Project record.   *)
(* The body is validated against Project before the handler runs.          *)
create_project ==
  /\ pc = 0
  /\ \E payload \in ProjectPayloads :
       \/ /\ ~Validates("Project", payload)
          /\ cur' = Request("create_project", "projects", "", payload, None)
          /\ resp' = HTTPException(422, "validation error", 0)
          /\ UNCHANGED <<store, nextId, pc, writes>>
       \/ /\ Validates("Project", payload)
          /\ ~connected
          /\ cur' = Request("create_project", "projects", "", payload, None)
          /\ resp' = Unhandled(0)
          /\ UNCHANGED <<store, nextId, pc, writes>>
       \/ /\ Validates("Project", payload)
          /\ connected
          /\ writes < MaxWrites
          /\ nextId + NumDependents <= Len(HexOf)
          /\ store' = create_document(store, collection_name("Project"), "Project", payload, nextId)
          /\ cur' = Request("create_project", "projects", HexOf[nextId], payload, None)
          /\ nextId' = nextId + 1
          /\ pc' = 1
          /\ writes' = writes + 1
          /\ resp' = [Pending EXCEPT !.calls = 1]
  /\ UNCHANGED <<connected, kind, serVars>>

(* the next seeding insert of lines 129-131; after the last one, line 132  *)
(* answers with the id                                                     *)
seed_dependent ==
  /\ pc \in 1..NumDependents
  /\ LET dep == Dependent(pc, cur.id)
     IN  store' = create_document(store, collection_name(dep.model), dep.model, dep.payload, nextId)
  /\ nextId' = nextId + 1
  /\ IF pc = NumDependents
     THEN /\ pc' = 0
          /\ resp' = Response(200, Dict([id |-> Str(cur.id)]), resp.calls + 1)
     ELSE /\ pc' = pc + 1
          /\ resp' = [resp EXCEPT !.calls = @ + 1]
  /\ UNCHANGED <<connected, kind, cur, writes, serVars>>

(* a failed seeding insert reported as success *)
seed_failure_swallowed(id, calls) == Response(200, Dict([id |-> Str(id)]), calls)

(* the exception of a seeding insert leaves create_project uncaught *)
seed_failure(id, calls) == Unhandled(calls)

(* a seeding insert raises (the store became unreachable) or the process   *)
(* dies before it: nothing is undone                                       *)
seed_fault ==
  /\ pc \in 1..NumDependents
  /\ pc' = 0
  /\ resp' = seed_failure(cur.id, resp.calls + 1)
  /\ UNCHANGED <<connected, kind, store, nextId, cur, writes, serVars>>

(* a delete that takes the project's dependents with it *)
delete_project_cascading(st, oid) ==
  LET Keep(d) == ~("project_id" \in DOMAIN d /\ d["project_id"] = str_oid(oid))
  IN  [c \in Collections |->
         IF c = collection_name("Project") THEN delete_one(st, c, oid)[c]
         ELSE SelectSeq(st[c], Keep)]

(* line 139 *)
delete_project_records(st, oid) == delete_one(st, collection_name("Project"), oid)

(* DELETE /projects/{project_id} *)
delete_project ==
  /\ pc = 0
  /\ \E project_id \in ProjectIds \cup {UnusedHex, BadId} :
       /\ cur' = Request("delete_project", "projects", project_id, EmptyMap, None)
       /\ \/ /\ ~connected
             /\ resp' = HTTPException(500, "Database not available", 0)
             /\ UNCHANGED <<store, writes>>
          \/ /\ connected
             /\ ~WellFormed(project_id)
             /\ resp' = Unhandled(0)
             /\ UNCHANGED <<store, writes>>
          \/ /\ connected
             /\ WellFormed(project_id)
             /\ MatchIndex(store, collection_name("Project"), Oid(project_id)) = {}
             /\ resp' = HTTPException(404, "Project not found", 1)
             /\ UNCHANGED <<store, writes>>
          \/ /\ connected
             /\ WellFormed(project_id)
             /\ MatchIndex(store, collection_name("Project"), Oid(project_id)) # {}
             /\ writes < MaxWrites
             /\ store' = delete_project_records(store, Oid(project_id))
             /\ writes' = writes + 1
             /\ resp' = Response(200, Dict([status |-> Str("ok")]), 1)
  /\ UNCHANGED <<connected, kind, nextId, pc, serVars>>

----------------------------------------------------------------------------
(* Generic project-scoped CRUD, src/main.py:149-199.  The project routes   *)
(* are registered first, so GET /projects, POST /projects and              *)
(* DELETE /projects/{id} never reach the generic handlers.                 *)

(* the checks that precede the store in update_item and delete_item, in    *)
(* the order database first                                                *)
write_precheck_db_first(resource, conn) ==
  IF ~conn THEN HTTPException(500, "Database not available", 0)
  ELSE IF resource \notin DOMAIN ModelMap THEN HTTPException(404, "Unknown resource", 0)
  ELSE Pending

(* lines 173-176 and 192-195: Pending when both checks pass *)
write_precheck(resource, conn) ==
  IF resource \notin DOMAIN ModelMap THEN HTTPException(404, "Unknown resource", 0)
  ELSE IF ~conn THEN HTTPException(500, "Database not available", 0)
  ELSE Pending

(* line 155: `if project_id` is false for None and for the empty string *)
list_filter(project_id) ==
  IF project_id.t = "str" /\ project_id.v # "" THEN [project_id |-> project_id] ELSE EmptyMap

(* a list that asks the store without looking at the handle *)
list_unavailable_raises == Unhandled(0)

(* lines 153-154 *)
list_unavailable == Response(200, List(<<>>), 0)

(* GET /{resource}?project_id= *)
list_by_project ==
  /\ pc = 0
  /\ \E resource \in Resources \ {"projects"} :
     \E project_id \in FilterInputs(resource) :
       /\ cur' = Request("list_by_project", resource, "", EmptyMap, project_id)
       /\ resp' =
            IF resource \notin DOMAIN ModelMap THEN HTTPException(404, "Unknown resource", 0)
            ELSE IF ~connected THEN list_unavailable
            ELSE Response(200,
                   Serialized(get_documents(store, collection_name(ModelMap[resource]),
                                            list_filter(project_id))), 1)
  /\ UNCHANGED <<connected, kind, store, nextId, pc, writes, serVars>>

(* POST /{resource} *)
create_item ==
  /\ pc = 0
  /\ \E resource \in Resources \ {"projects"} :
     \E payload \in ItemPayloads(resource) :
       /\ cur' = Request("create_item", resource, "", payload, None)
       /\ \/ /\ resource \notin DOMAIN ModelMap
             /\ resp' = HTTPException(404, "Unknown resource", 0)
             /\ UNCHANGED <<store, nextId, writes>>
          \/ /\ resource \in DOMAIN ModelMap
             /\ ~Validates(ModelMap[resource], payload)
             /\ resp' = HTTPException(422, "validation error", 0)
             /\ UNCHANGED <<store, nextId, writes>>
          \/ /\ resource \in DOMAIN ModelMap
             /\ Validates(ModelMap[resource], payload)
             /\ ~connected
             /\ resp' = Unhandled(0)
             /\ UNCHANGED <<store, nextId, writes>>
          \/ /\ resource \in DOMAIN ModelMap
             /\ Validates(ModelMap[resource], payload)
             /\ connected
             /\ writes < MaxWrites
             /\ nextId <= Len(HexOf)
             /\ store' = create_document(store, collection_name(ModelMap[resource]),
                                         ModelMap[resource], payload, nextId)
             /\ nextId' = nextId + 1
             /\ writes' = writes + 1
             /\ resp' = Response(200, Dict([id |-> Str(HexOf[nextId])]), 1)
  /\ UNCHANGED <<connected, kind, pc, serVars>>

(* line 180: the payload's declared fields, validated *)
advisory_check(model, payload) ==
  Validates(model, [k \in DOMAIN payload \cap model_fields(model) |-> payload[k]])

(* an update that answers 422 when the advisory check fails *)
update_rejected_strict(model, payload) == ~advisory_check(model, payload)

(* lines 179-182: the outcome of the advisory check is dropped *)
update_rejected(model, payload) == advisory_check(model, payload) /\ FALSE

(* PUT /{resource}/{item_id} *)
update_item ==
  /\ pc = 0
  /\ \E resource \in Resources :
     \E item_id \in IdInputs(resource), payload \in UpdateInputs(resource) :
       LET early == write_precheck(resource, connected)
           c == collection_name(ModelMap[resource])
           oid == Oid(item_id)
       IN
       /\ cur' = Request("update_item", resource, item_id, payload, None)
       /\ \/ /\ early # Pending
             /\ resp' = early
             /\ UNCHANGED <<store, writes>>
          \/ /\ early = Pending
             /\ update_rejected(ModelMap[resource], payload)
             /\ resp' = HTTPException(422, "validation error", 0)
             /\ UNCHANGED <<store, writes>>
          \/ /\ early = Pending
             /\ ~update_rejected(ModelMap[resource], payload)
             /\ ~WellFormed(item_id)
             /\ resp' = Unhandled(0)
             /\ UNCHANGED <<store, writes>>
          \/ /\ early = Pending
             /\ ~update_rejected(ModelMap[resource], payload)
             /\ WellFormed(item_id)
             /\ MatchIndex(store, c, oid) = {}
             /\ resp' = HTTPException(404, "Item not found", 1)
             /\ UNCHANGED <<store, writes>>
          \/ /\ early = Pending
             /\ ~update_rejected(ModelMap[resource], payload)
             /\ WellFormed(item_id)
             /\ MatchIndex(store, c, oid) # {}
             /\ SetRefused(store[c][CHOOSE n \in MatchIndex(store, c, oid) : TRUE], payload)
             /\ resp' = Unhandled(1)
             /\ UNCHANGED <<store, writes>>
          \/ /\ early = Pending
             /\ ~update_rejected(ModelMap[resource], payload)
             /\ WellFormed(item_id)
             /\ MatchIndex(store, c, oid) # {}
             /\ ~SetRefused(store[c][CHOOSE n \in MatchIndex(store, c, oid) : TRUE], payload)
             /\ writes < MaxWrites
             /\ store' = update_one(store, c, oid, payload)
             /\ writes' = writes + 1
             /\ resp' = Response(200, Dict([status |-> Str("ok")]), 1)
  /\ UNCHANGED <<connected, kind, nextId, pc, serVars>>

(* DELETE /{resource}/{item_id} *)
delete_item ==
  /\ pc = 0
  /\ \E resource \in Resources \ {"projects"} :
     \E item_id \in IdInputs(resource) :
       LET early == write_precheck(resource, connected)
           c == collection_name(ModelMap[resource])
           oid == Oid(item_id)
       IN
       /\ cur' = Request("delete_item", resource, item_id, EmptyMap, None)
       /\ \/ /\ early # Pending
             /\ resp' = early
             /\ UNCHANGED <<store, writes>>
          \/ /\ early = Pending
             /\ ~WellFormed(item_id)
             /\ resp' = Unhandled(0)
             /\ UNCHANGED <<store, writes>>
          \/ /\ early = Pending
             /\ WellFormed(item_id)
             /\ MatchIndex(store, c, oid) = {}
             /\ resp' = HTTPException(404, "Item not found", 1)
             /\ UNCHANGED <<store, writes>>
          \/ /\ early = Pending
             /\ WellFormed(item_id)
             /\ MatchIndex(store, c, oid) # {}
             /\ writes < MaxWrites
             /\ store' = delete_one(store, c, oid)
             /\ writes' = writes + 1
             /\ resp' = Response(200, Dict([status |-> Str("ok")]), 1)
  /\ UNCHANGED <<connected, kind, nextId, pc, serVars>>

----------------------------------------------------------------------------
(* The service *)

Init ==
  /\ connected \in BOOLEAN
  /\ kind \in DOMAIN ModelMap
  /\ store = EmptyStore
  /\ nextId = 1
  /\ pc = 0
  /\ cur = NoRequest
  /\ resp = Pending
  /\ writes = 0
  /\ arg = Unset
  /\ ret = Unset
  /\ ret2 = Unset

Next ==
  \/ list_projects
  \/ create_project
  \/ seed_dependent
  \/ seed_fault
  \/ delete_project
  \/ list_by_project
  \/ create_item
  \/ update_item
  \/ delete_item

Spec == Init /\ [][Next]_vars

----------------------------------------------------------------------------
(* The serializer on its own: every document of bounded depth *)

MaxDepth == 3

Scalars == {Oid("a01"), Str("a01"), Int_(7)}

Lists(V) == {<<>>} \cup {<<a>> : a \in V} \cup {<<a, b>> : a \in V, b \in Scalars}

Dicts(V) == {EmptyMap} \cup {("k" :> a) : a \in V}

RECURSIVE Values(_)

Values(d) ==
  IF d = 0 THEN Scalars
  ELSE Scalars \cup {List(q) : q \in Lists(Values(d - 1))}
               \cup {Dict(f) : f \in Dicts(Values(d - 1))}

Docs == {Dict(f) : f \in Dicts(Values(MaxDepth))} \cup {None}

InitSer ==
  /\ arg \in Docs
  /\ ret = Unset
  /\ ret2 = Unset
  /\ connected = FALSE
  /\ kind = "projects"
  /\ store = EmptyStore
  /\ nextId = 1
  /\ pc = 0
  /\ cur = NoRequest
  /\ resp = Pending
  /\ writes = 0

Serialize ==
  /\ ret = Unset
  /\ ret' = serialize_doc(arg)
  /\ UNCHANGED <<arg, ret2, crudVars>>

SerializeAgain ==
  /\ ret # Unset
  /\ ret2 = Unset
  /\ ret2' = serialize_doc(ret)
  /\ UNCHANGED <<arg, ret, crudVars>>

NextSer == Serialize \/ SerializeAgain

SpecSer == InitSer /\ [][NextSer]_vars

----------------------------------------------------------------------------
(* Properties *)

Registered(r) == r \in DOMAIN ModelMap

CollectionOf(r) == collection_name(ModelMap[r])

IndexOf(h) == CHOOSE n \in 1..Len(HexOf) : HexOf[n] = h

(* the records of collection c that carry project X *)
OfProject(c, X) ==
  LET Test(d) == "project_id" \in DOMAIN d /\ d["project_id"] = Str(X)
  IN  SelectSeq(store[c], Test)

Field(q, f) == [n \in 1..Len(q) |-> q[n][f]]

(* a record as a caller sees it: the identifier as text, the rest as stored *)
Listed(d) == Dict([k \in DOMAIN d |-> IF k = "_id" THEN Str(d[k].hex) ELSE d[k]])

CreateAnswered == cur.op = "create_project" /\ pc = 0 /\ resp.status = 200

SeededState ==
  CreateAnswered =>
    LET X == resp.body.map["id"].v
        auth == OfProject("authsettings", X)
        deps == OfProject("deployment", X)
    IN  /\ X = cur.id
        /\ Len(auth) = 1
        /\ Field(deps, "environment") = <<Str("Dev"), Str("QA"), Str("Production")>>
        /\ Field(deps, "status") = <<Str("Pending"), Str("Pending"), Str("Pending")>>

ListAfterCreate ==
  (/\ CreateAnswered
   /\ cur'.op = "list_by_project"
   /\ cur'.resource = "deployments"
   /\ cur'.project_id = Str(cur.id))
  => /\ resp'.status = 200
     /\ resp'.body = List([n \in 1..3 |-> Listed(OfProject("deployment", cur.id)[n])])
     /\ Len(OfProject("deployment", cur.id)) = 3

\* C1: a successful POST /projects that returns id X leaves exactly one
\* AuthSettings record and exactly three Deployment records for X, with
\* environments Dev, QA, Production and status Pending, and the list of
\* deployments filtered by X that follows returns exactly those three.
C1_ProjectSeeded == [](SeededState) /\ [][ListAfterCreate]_vars

C1_Witness ==
  /\ CreateAnswered
  /\ Len(OfProject("deployment", cur.id)) = 3
  /\ Len(OfProject("authsettings", cur.id)) = 1

DeleteProjectFrame ==
  cur'.op = "delete_project" =>
    /\ \A c \in Collections \ {"project"} : store'[c] = store[c]
    /\ Len(store["project"]) - Len(store'["project"]) \in {0, 1}
    /\ \A n \in 1..Len(store["project"]) :
         store["project"][n]["_id"].hex # cur'.id =>
           store["project"][n] \in Range(store'["project"])
    /\ Range(store'["project"]) \subseteq Range(store["project"])

\* C2: DELETE /projects/{id} removes at most the one Project record with
\* that id; every other collection, and so every AuthSettings and Deployment
\* record of the project, is exactly as before, on success and on not found.
C2_DeleteLeavesDependents == [][DeleteProjectFrame]_vars

C2_Witness ==
  /\ cur.op = "delete_project"
  /\ resp.status = 200
  /\ cur.id \notin ProjectIds
  /\ Len(OfProject("authsettings", cur.id)) = 1
  /\ Len(OfProject("deployment", cur.id)) = 3

UpdateMissing ==
  (/\ cur'.op = "update_item"
   /\ Registered(cur'.resource)
   /\ connected
   /\ cur'.id \notin IdsIn(store, CollectionOf(cur'.resource)))
  => /\ resp'.status = 404
     /\ store' = store

\* C3: on a connected store, an update of a registered kind whose id matches
\* no stored record of that kind (a malformed id included) answers 404 and
\* leaves every collection as it was.
C3_UpdateMissingIs404 == [][UpdateMissing]_vars

GenericOps == {"list_by_project", "create_item", "update_item", "delete_item"}

UnknownKindStep ==
  (cur'.op \in GenericOps /\ ~Registered(cur'.resource))
  => /\ resp'.status = 404
     /\ resp'.calls = 0
     /\ store' = store

\* C4: each of the four generic operations answers 404 for a resource name
\* outside the registry without a single store call and without changing
\* the store, whether or not the store is connected.
C4_UnknownKindIs404 == [][UnknownKindStep]_vars

C4_Witness ==
  /\ ~connected
  /\ cur.op = "update_item"
  /\ ~Registered(cur.resource)
  /\ resp.status = 404

ReadOps == {"list_projects", "list_by_project"}

WriteOps == {"create_project", "create_item", "update_item", "delete_item", "delete_project"}

OnRegistered == cur.op \in ReadOps \cup WriteOps /\ Registered(cur.resource)

\* C5 as claimed: with the store never connected, every write on a
\* registered kind answers 500 and changes nothing, and every list answers
\* the empty sequence.
C5_Original ==
  (~connected /\ OnRegistered) =>
     /\ store = EmptyStore
     /\ cur.op \in ReadOps => resp.status = 200 /\ resp.body = List(<<>>)
     /\ cur.op \in WriteOps => resp.status = 500

CreateOps == {"create_project", "create_item"}

PayloadValid == Validates(ModelMap[cur.resource], cur.payload)

\* C5: with the store never connected, every list of a registered kind
\* answers the empty sequence; update, delete and a create whose payload
\* passes validation answer 500; a create whose payload fails validation
\* answers 422; nothing is stored and no store call is made.
C5_Unavailable ==
  (~connected /\ OnRegistered) =>
     /\ store = EmptyStore
     /\ resp.calls = 0
     /\ cur.op \in ReadOps => resp.status = 200 /\ resp.body = List(<<>>)
     /\ cur.op \in WriteOps \ CreateOps => resp.status = 500
     /\ cur.op \in CreateOps => resp.status = IF PayloadValid THEN 500 ELSE 422

C5_Witness ==
  /\ ~connected
  /\ cur.op = "create_item"
  /\ Registered(cur.resource)
  /\ PayloadValid
  /\ resp.status = 500

(* the record of collection c with identifier h, in store st *)
RecordOf(st, c, h) == st[c][CHOOSE n \in 1..Len(st[c]) : st[c][n]["_id"].hex = h]

UpdateHits ==
  /\ cur'.op = "update_item"
  /\ Registered(cur'.resource)
  /\ cur'.id \in IdsIn(store, CollectionOf(cur'.resource))

PayloadMerged ==
  LET c == CollectionOf(cur'.resource)
      before == RecordOf(store, c, cur'.id)
      after == RecordOf(store', c, cur'.id)
  IN  /\ cur'.id \in IdsIn(store', c)
      /\ \A k \in DOMAIN cur'.payload : k \in DOMAIN after /\ after[k] = cur'.payload[k]
      /\ \A k \in DOMAIN before \ DOMAIN cur'.payload : k \in DOMAIN after /\ after[k] = before[k]
      /\ DOMAIN after = DOMAIN before \cup DOMAIN cur'.payload

\* C6 as claimed: an update of a stored record is never rejected by schema
\* validation, and afterwards the record holds every field of the payload
\* with the supplied value, its other fields unchanged.
C6_Original == [][UpdateHits => (resp'.status # 422 /\ PayloadMerged)]_vars

UpdateMerges ==
  UpdateHits =>
    IF "_id" \in DOMAIN cur'.payload
    THEN resp'.status = 500 /\ store' = store
    ELSE resp'.status = 200 /\ PayloadMerged

\* C6: an update of a stored record whose payload does not name _id is
\* never rejected by schema validation, answers success and leaves the
\* record holding every field of the payload with the supplied value
\* (undeclared fields and values of the wrong type included), its other
\* fields unchanged; a payload that names _id is refused by the store, the
\* request answers 500 and nothing changes.
C6_UpdateMerges == [][UpdateMerges]_vars

C6_Witness ==
  /\ cur.op = "update_item"
  /\ resp.status = 200
  /\ "extra" \in DOMAIN cur.payload
  /\ ~advisory_check(ModelMap[cur.resource], cur.payload)
  /\ LET d == RecordOf(store, CollectionOf(cur.resource), cur.id)
     IN  d["extra"] = Str("x") /\ d["project_id"] = Int_(7) /\ "environment" \in DOMAIN d

(* what the list of a kind is claimed to answer: no filter, all records;   *)
(* a filter, the records whose project_id equals it                        *)
ClaimedList(c, f) ==
  LET Test(d) == f = None \/ ("project_id" \in DOMAIN d /\ d["project_id"] = f)
      hits == SelectSeq(store[c], Test)
  IN  List([n \in 1..Len(hits) |-> Listed(hits[n])])

\* C7: a list of a registered kind answers, without error, exactly the
\* stored records of that kind that match the filter (all of them when no
\* project identifier was supplied, those whose project_id equals the
\* supplied value otherwise), each with its identifier as a string.
C7_ListIsExact ==
  (cur.op \in ReadOps /\ Registered(cur.resource)) =>
     /\ resp.status = 200
     /\ resp.body = ClaimedList(CollectionOf(cur.resource), cur.project_id)

CascadeSeen == cur.op = "create_project" /\ cur.id # ""

(* the seeded records of the project whose cascade is the last request     *)
(* are the first n of AuthSettings, Dev, QA, Production, inserted right    *)
(* after the project and in that order                                     *)
SeededPrefix(n) ==
  LET auth == OfProject("authsettings", cur.id)
      deps == OfProject("deployment", cur.id)
      p == IndexOf(cur.id)
  IN  /\ n \in 0..NumDependents
      /\ Len(auth) = IF n >= 1 THEN 1 ELSE 0
      /\ Len(deps) = IF n >= 1 THEN n - 1 ELSE 0
      /\ Field(deps, "environment") = [m \in 1..Len(deps) |-> Str(SeedEnvironments[m])]
      /\ \A m \in 1..Len(auth) : auth[m]["_id"] = Oid(HexOf[p + 1])
      /\ \A m \in 1..Len(deps) : deps[m]["_id"] = Oid(HexOf[p + 1 + m])

SeededCount == Len(OfProject("authsettings", cur.id)) + Len(OfProject("deployment", cur.id))

CascadeShape ==
  /\ cur.id \in ProjectIds
  /\ SeededPrefix(SeededCount)
  /\ pc # 0 => SeededCount = pc - 1

RECURSIVE HasOid(_)

HasOid(v) ==
  CASE v.t = "oid" -> TRUE
    [] v.t = "list" -> \E n \in 1..Len(v.items) : HasOid(v.items[n])
    [] v.t = "dict" -> \E k \in DOMAIN v.map : HasOid(v.map[k])
    [] OTHER -> FALSE

RECURSIVE Converted(_)

(* v with every identifier, at any depth, replaced by its text *)
Converted(v) ==
  CASE v.t = "oid" -> Str(v.hex)
    [] v.t = "list" -> List([n \in 1..Len(v.items) |-> Converted(v.items[n])])
    [] v.t = "dict" -> Dict([k \in DOMAIN v.map |-> Converted(v.map[k])])
    [] OTHER -> v

\* C8: the serializer's output holds no store-native identifier at any
\* depth: it is the input with every identifier replaced by its string and
\* every other scalar unchanged.
C8_NoIdentifierLeft == ret # Unset => (~HasOid(ret) /\ ret = Converted(arg))

\* C9: serializing the serializer's output gives that output again.
C9_Idempotent == ret2 # Unset => ret2 = ret

C9_Witness == ret2 # Unset /\ ret # arg /\ HasOid(arg) /\ ~HasOid(ret)

====
